---- MODULE Spec2Model ----
(***************************************************************************)
(* PolyASM (src/polyasm.py): the assembly pipeline as a state machine.     *)
(*   parse_input_to_blocks  -> one action per kind of source line          *)
(*   main's pass loop       -> LayoutPass (one resolve_symbols call each)  *)
(*   main's checks          -> UnresolvedCheck, BlockOverlapCheck,         *)
(*                             SectionOverlapCheck                         *)
(*   emit_files             -> Emit                                        *)
(* Strings of '0'/'1' are sequences of 0/1, first character first.         *)
(* Python's None is the integer None == -1 (addresses are non-negative).   *)
(***************************************************************************)
EXTENDS Integers, Sequences, FiniteSets, TLC

VARIABLES
    code_start, data_start,      \* main: section bases (-m code=..,data=..)
    lines,                       \* the source lines read so far
    blocks,                      \* main: blocks (list of Block)
    current_block,               \* parse_input_to_blocks: index in blocks, 0 = None
    unnamed_memory_count,        \* parse_input_to_blocks
    internal_line_index,         \* parse_input_to_blocks
    alias_map,                   \* SymbolTable.alias_map
    reverse_alias_map,           \* SymbolTable.reverse_alias_map
    function_map,                \* SymbolTable.function_map
    macro_map,                   \* SymbolTable.macro_map
    pc,                          \* position in main
    pass_i,                      \* main: pass loop index
    prev_blocks,                 \* main: snapshot of the previous pass
    err,                         \* the AsmError that ended the run, "" if none
    memory,                      \* emit_files: the bit image, address a at index a+1
    last                         \* symbol-table harness: the last call and its outcome

vars == <<code_start, data_start, lines, blocks, current_block,
          unnamed_memory_count, internal_line_index, alias_map,
          reverse_alias_map, function_map, macro_map, pc, pass_i,
          prev_blocks, err, memory, last>>

None == -1

\* ------------------------------------------------------------------ bounds
MaxLines == 3
MaxCalls == 4

\* ------------------------------------------------------- program constants
MAX_PASS == 10
opcode_width == 5
param1_width == 14
param2_width == 5
param3_width == 6

opcode_map == [jump |-> <<0,0,0,1,0>>, add |-> <<0,0,0,1,1>>, setreg |-> <<0,0,0,0,1>>]
register_map == [Jump_Register |-> 2, R1 |-> 5, REG_MOD |-> 1, REG_CMR |-> 2]
flag_map == [REG_SET1 |-> <<0,0,1,0,0,0,0,0>>, REG_SET2 |-> <<0,0,0,1,0,0,0,0>>]

\* ------------------------------------------------------------ dictionaries
EmptyMap == [x \in {} |-> None]
Get(map, k) == IF k \in DOMAIN map THEN map[k] ELSE None
Put(map, k, v) == [x \in DOMAIN map \cup {k} |-> IF x = k THEN v ELSE map[x]]
GetList(map, k) == IF k \in DOMAIN map THEN map[k] ELSE <<>>

\* ------------------------------------------------------------ SymbolTable
\* Each define_* returns the maps after the call and whether it raised.
\* define_alias without the redefinition check: a rebinding overwrites.
define_alias_overwrite(am, ram, aname, addr) ==
    [alias_map |-> Put(am, aname, addr),
     reverse_alias_map |-> Put(ram, addr, Append(GetList(ram, addr), aname)),
     raised |-> FALSE]

define_alias(am, ram, aname, addr) ==
    LET old == Get(am, aname) IN
    IF old # None
    THEN IF old # addr /\ addr # None
         THEN [alias_map |-> am, reverse_alias_map |-> ram, raised |-> TRUE]
         ELSE [alias_map |-> am, reverse_alias_map |-> ram, raised |-> FALSE]
    ELSE [alias_map |-> Put(am, aname, addr),
          reverse_alias_map |-> Put(ram, addr, Append(GetList(ram, addr), aname)),
          raised |-> FALSE]

get_alias_addr(am, aname) == Get(am, aname)

get_alias_name(ram, addr) == GetList(ram, addr)

\* define_function without the redefinition check.
define_function_overwrite(fm, fname, addr) ==
    [function_map |-> Put(fm, fname, addr), raised |-> FALSE]

define_function(fm, fname, addr) ==
    LET old == Get(fm, fname) IN
    IF old # None /\ old # addr /\ addr # None
    THEN [function_map |-> fm, raised |-> TRUE]
    ELSE [function_map |-> Put(fm, fname, addr), raised |-> FALSE]

get_function_addr(fm, fname) == Get(fm, fname)

define_macro(mm, mname, value) ==
    LET old == Get(mm, mname) IN
    IF old # None /\ old # value
    THEN [macro_map |-> mm, raised |-> TRUE]
    ELSE [macro_map |-> Put(mm, mname, value), raised |-> FALSE]

\* get_macro_value that finds no macro.
get_macro_value_unbound(mm, mname) == None

get_macro_value(mm, mname) == Get(mm, mname)

\* ------------------------------------------------------------ source text
\* An operand token: a bare literal, [NAME():], [#NAME], [@NAME] or [NAME].
Lit(v)      == [k |-> "lit",   n |-> "", v |-> v]
FuncRef(n)  == [k |-> "func",  n |-> n,  v |-> 0]
MacroRef(n) == [k |-> "macro", n |-> n,  v |-> 0]
AliasRef(n) == [k |-> "alias", n |-> n,  v |-> 0]
Bracket(n)  == [k |-> "name",  n |-> n,  v |-> 0]

\* One quoted substring of a data line: "0x.." (hex), "0b.." (bin, as its
\* digits), a decimal literal (dec), a word that is no literal (word), or
\* a flag combination (expr): the names re.split finds between the
\* operator characters re.findall finds, one name more than operators.
Hex(v)      == [k |-> "hex",  n |-> "", v |-> v, digits |-> <<>>,
                flags |-> <<>>, operators |-> <<>>]
Bin(ds)     == [k |-> "bin",  n |-> "", v |-> 0, digits |-> ds,
                flags |-> <<>>, operators |-> <<>>]
Dec(v)      == [k |-> "dec",  n |-> "", v |-> v, digits |-> <<>>,
                flags |-> <<>>, operators |-> <<>>]
Word(n)     == [k |-> "word", n |-> n,  v |-> 0, digits |-> <<>>,
                flags |-> <<>>, operators |-> <<>>]
Expr(flags, operators) ==
    [k |-> "expr", n |-> "", v |-> 0, digits |-> <<>>,
     flags |-> flags, operators |-> operators]

Quoted(parts) == [quoted |-> TRUE,  parts |-> parts, bits |-> <<>>]
Unquoted(bits) == [quoted |-> FALSE, parts |-> <<>>,  bits |-> bits]
NoData == Unquoted(<<>>)
NoOps == <<Lit(0), Lit(0), Lit(0)>>

MacroLine(n, v)    == [kind |-> "macro", name |-> n, val |-> v, opc |-> "",
                       ops |-> NoOps, data |-> NoData, aliases |-> <<>>]
MemoryLine(n)      == [kind |-> "memory", name |-> n, val |-> 0, opc |-> "",
                       ops |-> NoOps, data |-> NoData, aliases |-> <<>>]
FunctionLine(n)    == [kind |-> "function", name |-> n, val |-> 0, opc |-> "",
                       ops |-> NoOps, data |-> NoData, aliases |-> <<>>]
InstrLine(o, ps, as) == [kind |-> "instr", name |-> "", val |-> 0, opc |-> o,
                       ops |-> ps, data |-> NoData, aliases |-> as]
DataLine(d, as)    == [kind |-> "data", name |-> "", val |-> 0, opc |-> "",
                       ops |-> NoOps, data |-> d, aliases |-> as]

\* The lines an input file is drawn from.
MacroLines == {MacroLine("M", 3), MacroLine("M", 4)}
MemoryLines == {MemoryLine("Params")}
FunctionLines == {FunctionLine("g")}
InstrLines ==
    { InstrLine("add", NoOps, <<>>),
      InstrLine("add", NoOps, <<"A">>),
      InstrLine("jump", <<Lit(0), FuncRef("g"), Lit(0)>>, <<>>),
      InstrLine("setreg", <<Lit(0), AliasRef("A"), Lit(0)>>, <<>>),
      InstrLine("setreg", <<MacroRef("M"), Lit(1024), Bracket("R1")>>, <<>>),
      InstrLine("setreg", <<Bracket("M"), Lit(0), Lit(0)>>, <<>>) }
DataLines ==
    { DataLine(Quoted(<<Hex(17), Hex(34), Hex(51), Hex(68)>>), <<"A">>),
      DataLine(Quoted(<<Word("M"), Dec(0), Bin(<<1,0>>), Dec(0)>>), <<>>),
      DataLine(Unquoted(<<1>>), <<>>) }

\* Section bases main may be started with (defaults and -m overrides).
Bases == { <<0, 80>>, <<31, 32>> }

\* ---------------------------------------------------------- Block, IRLine
Block(type, name, lineno) ==
    [type |-> type, name |-> name, lineno |-> lineno, content |-> <<>>,
     start_addr |-> None, size |-> 0]

IRLine(t, line, alias, lineno) ==
    [type |-> t, opc |-> line.opc, ops |-> line.ops, data |-> line.data,
     alias |-> alias, lineno |-> lineno, expanded_bits |-> <<>>,
     addresses |-> <<>>, param1 |-> None, param2 |-> None, param3 |-> None]

\* "Unnamed_Memory_<n>"
UnnamedMemory(n) == "Unnamed_Memory_" \o ToString(n)

\* ---------------------------------------------------- parse_input_to_blocks
AppendTo(bs, b, irs) == [bs EXCEPT ![b].content = @ \o irs]

\* The ALIAS IR lines of "#alias NAME1 NAME2 ..." after a content line.
AliasIRs(line, index) ==
    [j \in 1..Len(line.aliases) |-> IRLine("ALIAS", line, line.aliases[j], index)]

CanRead == pc = "parse" /\ Len(lines) < MaxLines

ParseMacro(line) ==
    /\ CanRead
    /\ line.kind = "macro"
    /\ lines' = Append(lines, line)
    /\ LET r == define_macro(macro_map, line.name, line.val) IN
       /\ macro_map' = r.macro_map
       /\ IF r.raised
          THEN pc' = "failed" /\ err' = "MacroRedefined"
          ELSE UNCHANGED <<pc, err>>
    /\ UNCHANGED <<code_start, data_start, blocks, current_block,
                   unnamed_memory_count, internal_line_index, alias_map,
                   reverse_alias_map, function_map, pass_i, prev_blocks,
                   memory, last>>

ParseMemory(line) ==
    /\ CanRead
    /\ line.kind = "memory"
    /\ lines' = Append(lines, line)
    /\ internal_line_index' = 0
    /\ LET unnamed == line.name = ""
           cnt == IF unnamed THEN unnamed_memory_count + 1 ELSE unnamed_memory_count
           mname == IF unnamed THEN UnnamedMemory(cnt) ELSE line.name
       IN /\ unnamed_memory_count' = cnt
          /\ blocks' = Append(blocks, Block("memory", mname, Len(lines)))
    /\ current_block' = Len(blocks) + 1
    /\ UNCHANGED <<code_start, data_start, alias_map, reverse_alias_map,
                   function_map, macro_map, pc, pass_i, prev_blocks, err,
                   memory, last>>

ParseFunction(line) ==
    /\ CanRead
    /\ line.kind = "function"
    /\ lines' = Append(lines, line)
    /\ internal_line_index' = 0
    /\ blocks' = Append(blocks, Block("function", line.name, Len(lines)))
    /\ current_block' = Len(blocks) + 1
    /\ function_map' = define_function(function_map, line.name, None).function_map
    /\ UNCHANGED <<code_start, data_start, unnamed_memory_count, alias_map,
                   reverse_alias_map, macro_map, pc, pass_i, prev_blocks, err,
                   memory, last>>

ParseInstruction(line) ==
    /\ CanRead
    /\ line.kind = "instr"
    /\ lines' = Append(lines, line)
    /\ LET irline == IRLine("INSTRUCTION", line, "", Len(lines))
           opened == IF current_block = 0
                     THEN Append(blocks, Block("function", "main", Len(lines)))
                     ELSE blocks
           cur == IF current_block = 0 THEN Len(blocks) + 1 ELSE current_block
       IN /\ current_block' = cur
          /\ internal_line_index' = internal_line_index + 1
          /\ blocks' = AppendTo(opened, cur,
                                <<irline>> \o AliasIRs(line, internal_line_index))
    /\ UNCHANGED <<code_start, data_start, unnamed_memory_count, alias_map,
                   reverse_alias_map, function_map, macro_map, pc, pass_i,
                   prev_blocks, err, memory, last>>

ParseData(line) ==
    /\ CanRead
    /\ line.kind = "data"
    /\ lines' = Append(lines, line)
    /\ LET irline == IRLine("MEMORY_DATA", line, "", Len(lines))
           open == current_block = 0 \/ blocks[current_block].type # "memory"
           cnt == IF open THEN unnamed_memory_count + 1 ELSE unnamed_memory_count
           opened == IF open
                     THEN Append(blocks, Block("memory", UnnamedMemory(cnt), Len(lines)))
                     ELSE blocks
           cur == IF open THEN Len(blocks) + 1 ELSE current_block
       IN /\ unnamed_memory_count' = cnt
          /\ current_block' = cur
          /\ internal_line_index' = internal_line_index + 1
          /\ blocks' = AppendTo(opened, cur,
                                <<irline>> \o AliasIRs(line, internal_line_index))
    /\ UNCHANGED <<code_start, data_start, alias_map, reverse_alias_map,
                   function_map, macro_map, pc, pass_i, prev_blocks, err,
                   memory, last>>

\* End of the input file: parse_input_to_blocks returns, the pass loop starts.
EndOfInput ==
    /\ pc = "parse"
    /\ pc' = "layout"
    /\ pass_i' = 0
    /\ UNCHANGED <<code_start, data_start, lines, blocks, current_block,
                   unnamed_memory_count, internal_line_index, alias_map,
                   reverse_alias_map, function_map, macro_map, prev_blocks,
                   err, memory, last>>

\* ------------------------------------------------------------ bit helpers
Min(x, y) == IF x <= y THEN x ELSE y
Max(x, y) == IF x >= y THEN x ELSE y

\* A reversal that leaves the order as it is.
Rev_identity(s) == s

\* reversed(s)
Rev(s) == [i \in 1..Len(s) |-> s[Len(s) + 1 - i]]

RECURSIVE SumSeq(_)
SumSeq(s) == IF s = <<>> THEN 0 ELSE Head(s) + SumSeq(Tail(s))

\* int_to_lsb_array: the bits of v from LSB to MSB, empty for v <= 0.
RECURSIVE int_to_lsb_array(_)
int_to_lsb_array(v) ==
    IF v > 0 THEN <<v % 2>> \o int_to_lsb_array(v \div 2) ELSE <<>>

\* bin(v)[2:] for v >= 0: the digits of v, most significant first.
BinDigits(v) == IF v = 0 THEN <<0>> ELSE Rev(int_to_lsb_array(v))

\* ds zero-filled on the left to at least w characters.
ZeroFill(ds, w) ==
    [i \in 1..Max(w, Len(ds)) |->
        IF i <= Max(w, Len(ds)) - Len(ds) THEN 0
        ELSE ds[i - (Max(w, Len(ds)) - Len(ds))]]

\* The character '-' in a string of '0'/'1' characters.
MinusChar == 2

\* "{:08b}".format(byte): at least 8 characters, the sign of a negative
\* byte among them.
Format08b(byte) ==
    IF byte >= 0 THEN ZeroFill(BinDigits(byte), 8)
    ELSE <<MinusChar>> \o ZeroFill(BinDigits(-byte), 7)

\* Python's a & b, a | b, a ^ b and ~a on integers of either sign.
RECURSIVE BitAnd(_, _)
BitAnd(a, b) ==
    IF a = 0 \/ b = 0 THEN 0
    ELSE IF a = -1 THEN b
    ELSE IF b = -1 THEN a
    ELSE (a % 2) * (b % 2) + 2 * BitAnd(a \div 2, b \div 2)

RECURSIVE BitOr(_, _)
BitOr(a, b) ==
    IF a = 0 THEN b
    ELSE IF b = 0 THEN a
    ELSE IF a = -1 \/ b = -1 THEN -1
    ELSE Max(a % 2, b % 2) + 2 * BitOr(a \div 2, b \div 2)

RECURSIVE BitXor(_, _)
BitXor(a, b) ==
    IF a = 0 THEN b
    ELSE IF b = 0 THEN a
    ELSE IF a = -1 THEN -b - 1
    ELSE IF b = -1 THEN -a - 1
    ELSE ((a + b) % 2) + 2 * BitXor(a \div 2, b \div 2)

BitNot(a) == -a - 1

\* int(bits, 2)
RECURSIVE BinValue(_)
BinValue(bits) ==
    IF bits = <<>> THEN 0
    ELSE 2 * BinValue(SubSeq(bits, 1, Len(bits) - 1)) + bits[Len(bits)]

\* ------------------------------------------------------------ expand_instr
\* A field that puts its padding in front.
Field_padded_front(arr, w) ==
    [i \in 1..w |-> IF i <= w - Len(arr) THEN 0
                    ELSE arr[i - (w - Min(Len(arr), w))]]

\* One field of a word: up to w bits popped from the front of arr, 0-padded.
Field(arr, w) == [i \in 1..w |-> IF i <= Len(arr) THEN arr[i] ELSE 0]
\* Pops that take one bit more than the field holds.
Rest_one_more(arr, w) ==
    IF Len(arr) <= w + 1 THEN <<>> ELSE SubSeq(arr, w + 2, Len(arr))

\* What the pops leave in arr.
Rest(arr, w) == IF Len(arr) <= w THEN <<>> ELSE SubSeq(arr, w + 1, Len(arr))

\* A continuation bit that looks at the first parameter only.
cbit_first_only(arr1, arr2, arr3) == IF arr1 # <<>> THEN 1 ELSE 0

\* The continuation bit, from what is left of the parameter arrays.
cbit(arr1, arr2, arr3) ==
    IF arr1 # <<>> \/ arr2 # <<>> \/ arr3 # <<>> THEN 1 ELSE 0

\* A parity bit that makes the word's parity odd.
pbit_odd(out31) == (SumSeq(out31) + 1) % 2

\* The parity bit over the 31 bits below it.
pbit(out31) == SumSeq(out31) % 2

RECURSIVE expand_loop(_, _, _, _, _)
expand_loop(op_arr, arr1, arr2, arr3, result) ==
    LET r1 == Rest(arr1, param1_width)
        r2 == Rest(arr2, param2_width)
        r3 == Rest(arr3, param3_width)
        out31 == Field(op_arr, opcode_width) \o Field(arr1, param1_width)
                 \o Field(arr2, param2_width) \o Field(arr3, param3_width)
                 \o <<cbit(r1, r2, r3)>>
        full32 == out31 \o <<pbit(out31)>>
        bitstr == Rev(full32)
        res == Append(result, bitstr)
    IN IF r1 = <<>> /\ r2 = <<>> /\ r3 = <<>>
       THEN res
       ELSE expand_loop(Rest(op_arr, opcode_width), r1, r2, r3, res)

expand_instr(opcode_bits, p1, p2, p3) ==
    expand_loop(Rev(opcode_bits), int_to_lsb_array(p1), int_to_lsb_array(p2),
                int_to_lsb_array(p3), <<>>)

\* ------------------------------------------------------- parse_one_param
\* [err, v]: err is "" or the error raised.
parse_one_param(tok, symtbl) ==
    CASE tok.k = "lit" -> [err |-> "", v |-> tok.v]
      [] tok.k = "func" ->
            LET faddr == get_function_addr(symtbl.function_map, tok.n) IN
            [err |-> "", v |-> IF faddr = None THEN 0 ELSE faddr]
      [] tok.k = "macro" ->
            LET mval == get_macro_value(symtbl.macro_map, tok.n) IN
            [err |-> "", v |-> IF mval = None THEN 0 ELSE mval]
      [] tok.k = "alias" ->
            LET aaddr == get_alias_addr(symtbl.alias_map, tok.n) IN
            [err |-> "", v |-> IF aaddr = None THEN 0 ELSE aaddr]
      [] tok.k = "name" ->
            IF tok.n \in DOMAIN register_map
            THEN [err |-> "", v |-> register_map[tok.n]]
            ELSE IF tok.n \in DOMAIN symtbl.macro_map
            THEN [err |-> "", v |-> symtbl.macro_map[tok.n]]
            ELSE [err |-> "InvalidLiteral", v |-> 0]

parse_three_params(ptoks, symtbl) ==
    LET r == [i \in 1..3 |-> parse_one_param(ptoks[i], symtbl)]
        bad == {i \in 1..3 : r[i].err # ""}
    IN [err |-> IF bad = {} THEN ""
                ELSE r[CHOOSE i \in bad : \A j \in bad : i <= j].err,
        p |-> [i \in 1..3 |-> r[i].v]]

\* ------------------------------------------------------- parse_data_line
\* [err, v]: the value of one name of a flag combination, a macro before a
\* predefined flag.
flag_value(flag, symtbl) ==
    IF flag \in DOMAIN symtbl.macro_map
    THEN LET bits == BinDigits(get_macro_value(symtbl.macro_map, flag)) IN
         IF Len(bits) > 8 THEN [err |-> "ByteTooWide", v |-> 0]
         ELSE [err |-> "", v |-> BinValue(bits)]
    ELSE IF flag \in DOMAIN flag_map
    THEN IF Len(flag_map[flag]) > 8 THEN [err |-> "ByteTooWide", v |-> 0]
         ELSE [err |-> "", v |-> BinValue(flag_map[flag])]
    ELSE [err |-> "UnknownFlag", v |-> 0]

\* An operator step in which '~' negates the flag to its right.
apply_operator_not_right(byte, operator, value) ==
    CASE operator = "|" -> BitOr(byte, value)
      [] operator = "&" -> BitAnd(byte, value)
      [] operator = "^" -> BitXor(byte, value)
      [] operator = "~" -> BitAnd(BitNot(value), 255)
      [] operator = "+" -> byte + value
      [] operator = "-" -> byte - value

\* One step "byte <op>= flag_value" of the loop over the flags.
apply_operator(byte, operator, value) ==
    CASE operator = "|" -> BitOr(byte, value)
      [] operator = "&" -> BitAnd(byte, value)
      [] operator = "^" -> BitXor(byte, value)
      [] operator = "~" -> BitAnd(BitNot(byte), 255)
      [] operator = "+" -> byte + value
      [] operator = "-" -> byte - value

\* The loop over the flags from index i on: [err, byte].
RECURSIVE flag_loop(_, _, _, _, _)
flag_loop(flags, operators, symtbl, i, byte) ==
    IF i > Len(flags) THEN [err |-> "", byte |-> byte]
    ELSE LET fv == flag_value(flags[i], symtbl) IN
         IF fv.err # "" THEN [err |-> fv.err, byte |-> byte]
         ELSE flag_loop(flags, operators, symtbl, i + 1,
                        IF i = 1 THEN fv.v
                        ELSE apply_operator(byte, operators[i - 1], fv.v))

\* [err, bitstr] for one quoted substring.
parse_8_bit_data(part, symtbl) ==
    CASE part.k = "expr" ->
            LET r == flag_loop(part.flags, part.operators, symtbl, 1, 0) IN
            IF r.err # "" THEN [err |-> r.err, bitstr |-> <<>>]
            ELSE IF r.byte >= 256 THEN [err |-> "ByteTooWide", bitstr |-> <<>>]
            ELSE [err |-> "", bitstr |-> Format08b(r.byte)]
      [] part.k = "bin" ->
            IF Len(part.digits) > 8
            THEN [err |-> "ByteTooWide", bitstr |-> <<>>]
            ELSE [err |-> "", bitstr |-> Format08b(BinValue(part.digits))]
      [] part.k = "hex" ->
            IF part.v >= 256
            THEN [err |-> "ByteTooWide", bitstr |-> <<>>]
            ELSE [err |-> "", bitstr |-> Format08b(part.v)]
      [] part.k = "dec" ->
            IF part.v >= 256
            THEN [err |-> "ByteTooWide", bitstr |-> <<>>]
            ELSE [err |-> "", bitstr |-> Format08b(part.v)]
      [] part.k = "word" ->
            IF part.n \in DOMAIN symtbl.macro_map
            THEN LET byte == get_macro_value(symtbl.macro_map, part.n) IN
                 IF byte >= 256
                 THEN [err |-> "ByteTooWide", bitstr |-> <<>>]
                 ELSE [err |-> "", bitstr |-> Format08b(byte)]
            ELSE [err |-> "InvalidLiteral", bitstr |-> <<>>]

\* A parse_data_line that joins the four bytes last-written first.
parse_data_line_reversed(data, symtbl) ==
    IF data.quoted
    THEN IF Len(data.parts) # 4
         THEN [err |-> "QuotedCount", words |-> <<>>]
         ELSE LET r == [i \in 1..4 |-> parse_8_bit_data(data.parts[i], symtbl)]
                  bad == {i \in 1..4 : r[i].err # ""}
              IN IF bad # {}
                 THEN [err |-> r[CHOOSE i \in bad : \A j \in bad : i <= j].err,
                       words |-> <<>>]
                 ELSE [err |-> "",
                       words |-> <<r[4].bitstr \o r[3].bitstr \o r[2].bitstr
                                   \o r[1].bitstr>>]
    ELSE IF Len(data.bits) = 32
         THEN [err |-> "", words |-> <<data.bits>>]
         ELSE IF Len(data.bits) < 32
         THEN [err |-> "", words |-> <<Field(data.bits, 32)>>]
         ELSE [err |-> "DataTooLong", words |-> <<>>]

\* [err, words]: the list of 32-bit words of a data line.
parse_data_line(data, symtbl) ==
    IF data.quoted
    THEN IF Len(data.parts) # 4
         THEN [err |-> "QuotedCount", words |-> <<>>]
         ELSE LET r == [i \in 1..4 |-> parse_8_bit_data(data.parts[i], symtbl)]
                  bad == {i \in 1..4 : r[i].err # ""}
              IN IF bad # {}
                 THEN [err |-> r[CHOOSE i \in bad : \A j \in bad : i <= j].err,
                       words |-> <<>>]
                 ELSE [err |-> "",
                       words |-> <<r[1].bitstr \o r[2].bitstr \o r[3].bitstr
                                   \o r[4].bitstr>>]
    ELSE IF Len(data.bits) = 32
         THEN [err |-> "", words |-> <<data.bits>>]
         ELSE IF Len(data.bits) < 32
         THEN [err |-> "", words |-> <<Field(data.bits, 32)>>]
         ELSE [err |-> "DataTooLong", words |-> <<>>]

\* -------------------------------------------------------- resolve_symbols
\* The pass state st: blocks, symtbl, current_code_address (cc),
\* current_data_address (dc), updated, err ("" until something raises).
\* A range that includes its end.
Range_inclusive(from, n) == [i \in 1..(n + 1) |-> from + i - 1]

\* A range that repeats its first address.
Range_repeats_first(from, n) == [i \in 1..n |-> from]

\* list(range(from, from + n))
Range(from, n) == [i \in 1..n |-> from + i - 1]

SetLine(st, b, i, ir) == [st EXCEPT !.blocks[b].content[i] = ir]

\* An INSTRUCTION of a function block: resolve, expand, place at cc.
ResolveInstruction(st, b, i) ==
    LET ir == st.blocks[b].content[i]
        known == ir.opc \in DOMAIN opcode_map
        opcode_bits == opcode_map[ir.opc]
        ps == parse_three_params(ir.ops, st.symtbl)
        expansions == expand_instr(opcode_bits, ps.p[1], ps.p[2], ps.p[3])
        n == Len(expansions)
    IN IF ~known THEN [st EXCEPT !.err = "UnknownOpcode"]
       ELSE IF Len(opcode_bits) # opcode_width THEN [st EXCEPT !.err = "OpcodeWidth"]
       ELSE IF ps.err # "" THEN [st EXCEPT !.err = ps.err]
       ELSE [SetLine(st, b, i,
                     [ir EXCEPT !.param1 = ps.p[1], !.param2 = ps.p[2],
                                !.param3 = ps.p[3],
                                !.expanded_bits = expansions,
                                !.addresses = Range(st.cc, n)])
               EXCEPT !.blocks[b].size = @ + n, !.cc = @ + n]

\* A MEMORY_DATA line of a memory block: encode, place at dc.
ResolveData(st, b, i) ==
    LET ir == st.blocks[b].content[i]
        d == parse_data_line(ir.data, st.symtbl)
        n == Len(d.words)
    IN IF d.err # "" THEN [st EXCEPT !.err = d.err]
       ELSE [SetLine(st, b, i,
                     [ir EXCEPT !.expanded_bits = d.words,
                                !.addresses = Range(st.dc, n)])
               EXCEPT !.blocks[b].size = @ + n, !.dc = @ + n]

\* An ALIAS line of either kind of block.
ResolveAlias(st, b, i) ==
    LET ir == st.blocks[b].content[i]
        alias_addr == st.blocks[b].start_addr + ir.lineno
    IN IF get_alias_addr(st.symtbl.alias_map, ir.alias) = None
       THEN LET r == define_alias(st.symtbl.alias_map,
                                  st.symtbl.reverse_alias_map, ir.alias, alias_addr)
            IN IF r.raised THEN [st EXCEPT !.err = "AliasRedefined"]
               ELSE [st EXCEPT !.symtbl.alias_map = r.alias_map,
                               !.symtbl.reverse_alias_map = r.reverse_alias_map,
                               !.updated = TRUE]
       ELSE st

ResolveLine(st, b, i) ==
    LET blk == st.blocks[b]
        ir == blk.content[i]
    IN CASE blk.type = "function" /\ ir.type = "INSTRUCTION" -> ResolveInstruction(st, b, i)
         [] blk.type = "memory" /\ ir.type = "MEMORY_DATA" -> ResolveData(st, b, i)
         [] ir.type = "ALIAS" -> ResolveAlias(st, b, i)
         [] OTHER -> st

RECURSIVE ResolveLines(_, _, _)
ResolveLines(st, b, i) ==
    IF st.err # "" \/ i > Len(st.blocks[b].content) THEN st
    ELSE ResolveLines(ResolveLine(st, b, i), b, i + 1)

\* A function block that moves its function to current_code_address on
\* every pass.
FunctionStart_rebinds(st, b) ==
    [st EXCEPT !.symtbl.function_map = Put(@, st.blocks[b].name, st.cc),
               !.blocks[b].start_addr = st.cc]

\* The start of a function block: the function's address if it has one,
\* else current_code_address, which becomes the function's address.
FunctionStart(st, b) ==
    LET name == st.blocks[b].name IN
    IF get_function_addr(st.symtbl.function_map, name) = None
    THEN LET r == define_function(st.symtbl.function_map, name, st.cc) IN
         IF r.raised THEN [st EXCEPT !.err = "FunctionRedefined"]
         ELSE [st EXCEPT !.symtbl.function_map = r.function_map,
                         !.blocks[b].start_addr = st.cc]
    ELSE [st EXCEPT !.blocks[b].start_addr =
                        get_function_addr(st.symtbl.function_map, name)]

\* A memory block that starts one address after current_data_address.
MemoryStart_one_after(st, b) == [st EXCEPT !.blocks[b].start_addr = st.dc + 1]

\* The start of a memory block: current_data_address.
MemoryStart(st, b) == [st EXCEPT !.blocks[b].start_addr = st.dc]

ResolveBlock(st, b) ==
    LET initial_size == st.blocks[b].size
        s0 == IF st.blocks[b].type = "function"
              THEN FunctionStart(st, b) ELSE MemoryStart(st, b)
        s1 == IF s0.err # "" THEN s0
              ELSE ResolveLines([s0 EXCEPT !.blocks[b].size = 0], b, 1)
    IN IF s1.err = "" /\ s1.blocks[b].size # initial_size
       THEN [s1 EXCEPT !.updated = TRUE]
       ELSE s1

RECURSIVE ResolveBlocks(_, _)
ResolveBlocks(st, b) ==
    IF st.err # "" \/ b > Len(st.blocks) THEN st
    ELSE ResolveBlocks(ResolveBlock(st, b), b + 1)

resolve_symbols(bs, symtbl, cstart, dstart) ==
    ResolveBlocks([blocks |-> bs, symtbl |-> symtbl, cc |-> cstart,
                   dc |-> dstart, updated |-> FALSE, err |-> ""], 1)

\* ------------------------------------------------------------------- main
SymTbl == [alias_map |-> alias_map, reverse_alias_map |-> reverse_alias_map,
           function_map |-> function_map, macro_map |-> macro_map]

\* [ (b.start_addr, b.size) for b in blocks ]
Snapshot(bs) == [b \in 1..Len(bs) |-> <<bs[b].start_addr, bs[b].size>>]

\* A loop that also breaks right after the first pass.
LoopBreaks_first_pass(i, current_blocks, prev) == i = 0 \/ current_blocks = prev

\* A loop that compares the snapshots from its fourth pass on only.
LoopBreaks_after_third(i, current_blocks, prev) == i > 2 /\ current_blocks = prev

\* The pass loop breaks: not the first pass, and the snapshot did not change.
LoopBreaks(i, current_blocks, prev) == i # 0 /\ current_blocks = prev

\* One iteration of "for pass_i in range(MAX_PASS)", and the loop's else.
LayoutPass ==
    /\ pc = "layout"
    /\ LET after(r, cur) ==
              /\ blocks' = r.blocks
              /\ alias_map' = r.symtbl.alias_map
              /\ reverse_alias_map' = r.symtbl.reverse_alias_map
              /\ function_map' = r.symtbl.function_map
              /\ IF r.err # ""
                 THEN pc' = "failed" /\ err' = r.err /\ UNCHANGED <<pass_i, prev_blocks>>
                 ELSE IF LoopBreaks(pass_i, cur, prev_blocks)
                 THEN pc' = "unresolved_check" /\ UNCHANGED <<pass_i, prev_blocks, err>>
                 ELSE IF pass_i + 1 = MAX_PASS
                 THEN pc' = "failed" /\ err' = "NotConverged"
                      /\ prev_blocks' = cur /\ UNCHANGED pass_i
                 ELSE pc' = "layout" /\ pass_i' = pass_i + 1 /\ prev_blocks' = cur
                      /\ UNCHANGED err
           pass(r) == after(r, Snapshot(r.blocks))
       IN pass(resolve_symbols(blocks, SymTbl, code_start, data_start))
    /\ UNCHANGED <<code_start, data_start, lines, current_block,
                   unnamed_memory_count, internal_line_index, macro_map,
                   memory, last>>

\* "for an, ad in alias_map.items(): if ad is None: raise", same for functions.
UnresolvedCheck ==
    /\ pc = "unresolved_check"
    /\ IF \E an \in DOMAIN alias_map : alias_map[an] = None
       THEN pc' = "failed" /\ err' = "UnresolvedAlias"
       ELSE IF \E fn \in DOMAIN function_map : function_map[fn] = None
       THEN pc' = "failed" /\ err' = "UnresolvedFunction"
       ELSE pc' = "block_check" /\ UNCHANGED err
    /\ UNCHANGED <<code_start, data_start, lines, blocks, current_block,
                   unnamed_memory_count, internal_line_index, alias_map,
                   reverse_alias_map, function_map, macro_map, pass_i,
                   prev_blocks, memory, last>>

\* ----------------------------------------------------- check_block_overlap
\* b1 comes before b2 in sorted(blocks, key=start_addr or 0) (a stable sort).
SortKey(blk) == IF blk.start_addr = None THEN 0 ELSE blk.start_addr
SortedBefore(bs, x, y) ==
    \/ SortKey(bs[x]) < SortKey(bs[y])
    \/ SortKey(bs[x]) = SortKey(bs[y]) /\ x < y

\* The comparison with <= for <: blocks sharing one address pass.
Overlaps_off_by_one(b1, b2) ==
    ~(b1.start_addr + b1.size - 1 <= b2.start_addr
      \/ b1.start_addr > b2.start_addr + b2.size - 1)

\* "if not (b1_max < b2_min or b1_min > b2_max)"
Overlaps(b1, b2) ==
    LET b1_min == b1.start_addr
        b1_max == b1.start_addr + b1.size - 1
        b2_min == b2.start_addr
        b2_max == b2.start_addr + b2.size - 1
    IN ~(b1_max < b2_min \/ b1_min > b2_max)

\* TRUE iff check_block_overlap raises.
check_block_overlap(bs) ==
    \E x, y \in 1..Len(bs) :
        /\ x # y
        /\ SortedBefore(bs, x, y)
        /\ bs[x].start_addr # None
        /\ bs[y].start_addr # None
        /\ Overlaps(bs[x], bs[y])

BlockOverlapCheck ==
    /\ pc = "block_check"
    /\ IF check_block_overlap(blocks)
       THEN pc' = "failed" /\ err' = "BlockOverlap"
       ELSE pc' = "section_check" /\ UNCHANGED err
    /\ UNCHANGED <<code_start, data_start, lines, blocks, current_block,
                   unnamed_memory_count, internal_line_index, alias_map,
                   reverse_alias_map, function_map, macro_map, pass_i,
                   prev_blocks, memory, last>>

\* --------------------------------------------------- check_section_overlap
\* TRUE iff check_section_overlap raises.
check_section_overlap(cstart, code_size, dstart, data_size) ==
    LET code_min == cstart
        code_max == cstart + code_size - 1
        data_min == dstart
        data_max == dstart + data_size - 1
    IN ~(code_max < data_min) /\ ~(data_max < code_min)

RECURSIVE SectionSize(_, _)
SectionSize(bs, type) ==
    IF bs = <<>> THEN 0
    ELSE (IF Head(bs).type = type THEN Head(bs).size ELSE 0)
         + SectionSize(Tail(bs), type)

\* A SectionOverlapCheck that goes on to the emitter when the check raised.
SectionOverlapCheck_emits_anyway ==
    /\ pc = "section_check"
    /\ pc' = "emit"
    /\ UNCHANGED <<code_start, data_start, lines, blocks, current_block,
                   unnamed_memory_count, internal_line_index, alias_map,
                   reverse_alias_map, function_map, macro_map, pass_i,
                   prev_blocks, err, memory, last>>

SectionOverlapCheck ==
    /\ pc = "section_check"
    /\ IF check_section_overlap(code_start, SectionSize(blocks, "function"),
                                data_start, SectionSize(blocks, "memory"))
       THEN pc' = "failed" /\ err' = "SectionOverlap"
       ELSE pc' = "emit" /\ UNCHANGED err
    /\ UNCHANGED <<code_start, data_start, lines, blocks, current_block,
                   unnamed_memory_count, internal_line_index, alias_map,
                   reverse_alias_map, function_map, macro_map, pass_i,
                   prev_blocks, memory, last>>

\* -------------------------------------------------------------- emit_files
Zero32 == [i \in 1..32 |-> 0]

\* <<b, i>> of every IR line of every block.
IRLines(bs) ==
    UNION { { <<b, i>> : i \in 1..Len(bs[b].content) } : b \in 1..Len(bs) }

\* Every <<b, i, k>> that emit_files writes: the zip of the words and the
\* addresses of an IR line that has both.
Emitted(bs) ==
    UNION { { <<t[1], t[2], k>> :
                k \in 1..Min(Len(bs[t[1]].content[t[2]].expanded_bits),
                             Len(bs[t[1]].content[t[2]].addresses)) } :
            t \in { u \in IRLines(bs) :
                      /\ bs[u[1]].content[u[2]].expanded_bits # <<>>
                      /\ bs[u[1]].content[u[2]].addresses # <<>> } }

AddrOf(bs, t) == bs[t[1]].content[t[2]].addresses[t[3]]
WordOf(bs, t) == bs[t[1]].content[t[2]].expanded_bits[t[3]]

\* t is written before u.
WrittenBefore(t, u) ==
    \/ t[1] < u[1]
    \/ t[1] = u[1] /\ t[2] < u[2]
    \/ t[1] = u[1] /\ t[2] = u[2] /\ t[3] < u[3]

\* A max_addr that looks at the first address of each IR line only.
MaxAddr_first_only(bs) ==
    LET all == { bs[t[1]].content[t[2]].addresses[1] :
                   t \in { u \in IRLines(bs) :
                             bs[u[1]].content[u[2]].addresses # <<>> } }
    IN IF all = {} THEN -1 ELSE CHOOSE m \in all : \A a \in all : a <= m

\* max_addr over every address of every IR line, -1 if there is none.
MaxAddr(bs) ==
    LET all == UNION { { bs[t[1]].content[t[2]].addresses[k] :
                           k \in 1..Len(bs[t[1]].content[t[2]].addresses) } :
                       t \in IRLines(bs) }
    IN IF all = {} THEN -1 ELSE CHOOSE m \in all : \A a \in all : a <= m

\* The image: the last word written to each address, "0"*32 elsewhere.
Image(bs) ==
    LET mem_size == MaxAddr(bs) + 1
        at(a) == { t \in Emitted(bs) : AddrOf(bs, t) = a }
        final(a) == CHOOSE t \in at(a) : \A u \in at(a) : u = t \/ WrittenBefore(u, t)
    IN [j \in 1..mem_size |->
          IF at(j - 1) = {} THEN Zero32 ELSE WordOf(bs, final(j - 1))]

Emit ==
    /\ pc = "emit"
    /\ memory' = Image(blocks)
    /\ pc' = "done"
    /\ UNCHANGED <<code_start, data_start, lines, blocks, current_block,
                   unnamed_memory_count, internal_line_index, alias_map,
                   reverse_alias_map, function_map, macro_map, pass_i,
                   prev_blocks, err, last>>

\* ---------------------------------------------------------- specification
NoCall == [op |-> "none", name |-> "", addr |-> None, raised |-> FALSE,
           before |-> [alias_map |-> EmptyMap, reverse_alias_map |-> EmptyMap,
                       function_map |-> EmptyMap, macro_map |-> EmptyMap],
           n |-> 0]

Init ==
    /\ \E base \in Bases : code_start = base[1] /\ data_start = base[2]
    /\ lines = <<>>
    /\ blocks = <<>>
    /\ current_block = 0
    /\ unnamed_memory_count = 0
    /\ internal_line_index = 0
    /\ alias_map = EmptyMap
    /\ reverse_alias_map = EmptyMap
    /\ function_map = EmptyMap
    /\ macro_map = EmptyMap
    /\ pc = "parse"
    /\ pass_i = 0
    /\ prev_blocks = <<>>
    /\ err = ""
    /\ memory = <<>>
    /\ last = NoCall

Next ==
    \/ \E line \in MacroLines : ParseMacro(line)
    \/ \E line \in MemoryLines : ParseMemory(line)
    \/ \E line \in FunctionLines : ParseFunction(line)
    \/ \E line \in InstrLines : ParseInstruction(line)
    \/ \E line \in DataLines : ParseData(line)
    \/ EndOfInput
    \/ LayoutPass
    \/ UnresolvedCheck
    \/ BlockOverlapCheck
    \/ SectionOverlapCheck
    \/ Emit

Spec == Init /\ [][Next]_vars

\* ------------------------------------------------- SymbolTable on its own
\* Calls of define_alias and define_function with arbitrary arguments on one
\* table; a raised AsmError is caught and the table is used again.
SymNames == {"A", "B"}
SymAddrs == {None, 5, 7}

SymInit ==
    /\ code_start = 0
    /\ data_start = 80
    /\ lines = <<>>
    /\ blocks = <<>>
    /\ current_block = 0
    /\ unnamed_memory_count = 0
    /\ internal_line_index = 0
    /\ alias_map = EmptyMap
    /\ reverse_alias_map = EmptyMap
    /\ function_map = EmptyMap
    /\ macro_map = EmptyMap
    /\ pc = "symtbl"
    /\ pass_i = 0
    /\ prev_blocks = <<>>
    /\ err = ""
    /\ memory = <<>>
    /\ last = NoCall

CallDefineAlias(aname, addr) ==
    /\ pc = "symtbl"
    /\ last.n < MaxCalls
    /\ LET r == define_alias(alias_map, reverse_alias_map, aname, addr) IN
       /\ alias_map' = r.alias_map
       /\ reverse_alias_map' = r.reverse_alias_map
       /\ last' = [op |-> "define_alias", name |-> aname, addr |-> addr,
                   raised |-> r.raised, before |-> SymTbl, n |-> last.n + 1]
    /\ UNCHANGED <<code_start, data_start, lines, blocks, current_block,
                   unnamed_memory_count, internal_line_index, function_map,
                   macro_map, pc, pass_i, prev_blocks, err, memory>>

CallDefineFunction(fname, addr) ==
    /\ pc = "symtbl"
    /\ last.n < MaxCalls
    /\ LET r == define_function(function_map, fname, addr) IN
       /\ function_map' = r.function_map
       /\ last' = [op |-> "define_function", name |-> fname, addr |-> addr,
                   raised |-> r.raised, before |-> SymTbl, n |-> last.n + 1]
    /\ UNCHANGED <<code_start, data_start, lines, blocks, current_block,
                   unnamed_memory_count, internal_line_index, alias_map,
                   reverse_alias_map, macro_map, pc, pass_i, prev_blocks,
                   err, memory>>

SymNext ==
    \/ \E aname \in SymNames, addr \in SymAddrs : CallDefineAlias(aname, addr)
    \/ \E fname \in SymNames, addr \in SymAddrs : CallDefineFunction(fname, addr)

SymSpec == SymInit /\ [][SymNext]_vars

\* ---------------------------------------------------- encoders on their own
\* One call of an encoder on an input drawn from a bounded set; the call and
\* what it returned are recorded in last.
MaxBits == 34

\* Unquoted data lines: the 0/1 characters left when whitespace is removed.
BitPatterns == {"zeros", "ones", "alternate", "ends"}
PatternBit(pat, i, n) ==
    CASE pat = "zeros" -> 0
      [] pat = "ones" -> 1
      [] pat = "alternate" -> i % 2
      [] pat = "ends" -> IF i = 1 \/ i = n THEN 1 ELSE 0
UnquotedLines ==
    { Unquoted([i \in 1..n |-> PatternBit(pat, i, n)]) :
        n \in 1..MaxBits, pat \in BitPatterns }

\* Flag combinations: names that are a predefined flag, a macro of 2 bits, a
\* macro of 9 bits or unknown, between the six operator characters.
MaxFlags == 3
EncMacros == Put(Put(EmptyMap, "M", 3), "W", 300)
FlagNames == {"REG_SET1", "REG_SET2", "M", "W", "X"}
OperatorChars == {"|", "&", "^", "~", "+", "-"}
FlagCombinations(n) ==
    { Expr(flags, operators) :
        flags \in [1..n -> FlagNames],
        operators \in [1..(n - 1) -> OperatorChars] }

EncInit ==
    /\ code_start = 0
    /\ data_start = 80
    /\ lines = <<>>
    /\ blocks = <<>>
    /\ current_block = 0
    /\ unnamed_memory_count = 0
    /\ internal_line_index = 0
    /\ alias_map = EmptyMap
    /\ reverse_alias_map = EmptyMap
    /\ function_map = EmptyMap
    /\ macro_map = EncMacros
    /\ pc = "enc"
    /\ pass_i = 0
    /\ prev_blocks = <<>>
    /\ err = ""
    /\ memory = <<>>
    /\ last = NoCall

\* Quoted data lines: a first substring that is a combination of two flags
\* or a literal at and around the capacity of a byte, before three literal
\* substrings, and a line of three substrings only.
QuotedBytes ==
    FlagCombinations(2)
        \cup {Hex(255), Hex(256), Dec(255), Dec(256), Bin(<<1, 0>>),
              Word("M"), Word("W"), Word("X")}
QuotedLines ==
    { Quoted(<<p, Hex(17), Bin(<<1, 0>>), Dec(0)>>) : p \in QuotedBytes }
        \cup {Quoted(<<Hex(17), Bin(<<1, 0>>), Dec(0)>>)}

CallParseDataLine ==
    /\ pc = "enc"
    /\ pc' = "returned"
    /\ \E data \in UnquotedLines \cup QuotedLines :
          last' = [op |-> "parse_data_line", arg |-> data,
                   res |-> parse_data_line(data, SymTbl)]
    /\ UNCHANGED <<code_start, data_start, lines, blocks, current_block,
                   unnamed_memory_count, internal_line_index, alias_map,
                   reverse_alias_map, function_map, macro_map, pass_i,
                   prev_blocks, err, memory>>

\* Operands at and around the capacity of one, two and three words.
Param1Values == {0, 1, 16383, 16384, 268435455, 268435456}
Param2Values == {0, 1, 31, 32, 1023, 1024}
Param3Values == {0, 1, 63, 64, 4095, 4096}

CallExpandInstr ==
    /\ pc = "enc"
    /\ pc' = "returned"
    /\ \E opc \in DOMAIN opcode_map, p1 \in Param1Values,
          p2 \in Param2Values, p3 \in Param3Values :
          last' = [op |-> "expand_instr",
                   arg |-> <<opcode_map[opc], p1, p2, p3>>,
                   res |-> expand_instr(opcode_map[opc], p1, p2, p3)]
    /\ UNCHANGED <<code_start, data_start, lines, blocks, current_block,
                   unnamed_memory_count, internal_line_index, alias_map,
                   reverse_alias_map, function_map, macro_map, pass_i,
                   prev_blocks, err, memory>>

CallParse8BitData ==
    /\ pc = "enc"
    /\ pc' = "returned"
    /\ \E n \in 2..MaxFlags : \E part \in FlagCombinations(n) :
          last' = [op |-> "parse_8_bit_data", arg |-> part,
                   res |-> parse_8_bit_data(part, SymTbl)]
    /\ UNCHANGED <<code_start, data_start, lines, blocks, current_block,
                   unnamed_memory_count, internal_line_index, alias_map,
                   reverse_alias_map, function_map, macro_map, pass_i,
                   prev_blocks, err, memory>>

EncNext ==
    \/ CallParseDataLine
    \/ CallParse8BitData
    \/ CallExpandInstr

EncSpec == EncInit /\ [][EncNext]_vars

\* ================================================================= claims
\* The pass loop has declared convergence (the run is at or past the checks).
LayoutConverged ==
    \/ pc \in {"unresolved_check", "block_check", "section_check", "emit", "done"}
    \/ pc = "failed" /\ err \in {"UnresolvedAlias", "UnresolvedFunction",
                                 "BlockOverlap", "SectionOverlap"}

\* The run is accepted: it reached emission.
Accepted == pc \in {"emit", "done"}

\* <<b, i>> of every INSTRUCTION line of a function block.
Instructions ==
    { t \in IRLines(blocks) :
        /\ blocks[t[1]].type = "function"
        /\ blocks[t[1]].content[t[2]].type = "INSTRUCTION" }

\* <<b, i>> of every MEMORY_DATA line of a memory block.
DataWords ==
    { t \in IRLines(blocks) :
        /\ blocks[t[1]].type = "memory"
        /\ blocks[t[1]].content[t[2]].type = "MEMORY_DATA" }

\* <<b, i>> of every ALIAS line.
AliasLines ==
    { t \in IRLines(blocks) : blocks[t[1]].content[t[2]].type = "ALIAS" }

IR(t) == blocks[t[1]].content[t[2]]
Param(ir, k) == IF k = 1 THEN ir.param1 ELSE IF k = 2 THEN ir.param2 ELSE ir.param3
EvenParity(w) == SumSeq(w) % 2 = 0

\* The first function block named n, 0 if there is none.
BlockOf(n) ==
    LET bs == { b \in 1..Len(blocks) :
                  blocks[b].type = "function" /\ blocks[b].name = n }
    IN IF bs = {} THEN 0 ELSE CHOOSE b \in bs : \A c \in bs : b <= c

\* The address of the first word of block b, None if it has no word.
FirstWord(b) ==
    LET is == { i \in 1..Len(blocks[b].content) :
                  blocks[b].content[i].addresses # <<>> }
    IN IF is = {} THEN None
       ELSE blocks[b].content[CHOOSE i \in is : \A j \in is : i <= j].addresses[1]

\* C1: after the layout converges, every operand [NAME():] naming a defined
\* function equals the address of the first word of NAME's block, and the
\* block's start_addr and the function's address are that address too, also
\* when the referencing instruction grew on a later pass.
C1_FunctionOperandIsFirstWord ==
    LayoutConverged =>
        \A t \in Instructions : \A k \in 1..3 :
            LET op == IR(t).ops[k]
                b == BlockOf(op.n)
            IN (op.k = "func" /\ b # 0 /\ FirstWord(b) # None) =>
                  /\ Param(IR(t), k) = FirstWord(b)
                  /\ blocks[b].start_addr = FirstWord(b)
                  /\ get_function_addr(function_map, op.n) = FirstWord(b)

\* C2: once the pass loop has declared convergence, one more resolve_symbols
\* on the blocks and the symbol table raises nothing and yields the same
\* (start_addr, size) for every block.
C2_LayoutFixedPoint ==
    LayoutConverged =>
        LET r == resolve_symbols(blocks, SymTbl, code_start, data_start) IN
        r.err = "" /\ Snapshot(r.blocks) = Snapshot(blocks)

\* C2 witness: convergence was declared in the third pass, after a block
\* changed its size between the first pass and the second.
C2_Witness ==
    /\ LayoutConverged
    /\ pass_i = 2
    /\ \E b \in 1..Len(blocks) : blocks[b].size >= 2

\* C3 as claimed: every word of the bit image has even parity.
C3_EveryWordEvenParity ==
    pc = "done" => \A j \in 1..Len(memory) : EvenParity(memory[j])

\* The addresses given to data words.
DataAddresses ==
    UNION { { IR(t).addresses[k] : k \in 1..Len(IR(t).addresses) } : t \in DataWords }

\* C3 amended: every word expand_instr produced is 32 bits of even parity, and
\* in the bit image every word at an address that holds no data word (an
\* instruction word or the zero filler) has even parity.
C3_InstructionWordsEvenParity ==
    /\ \A t \in Instructions : \A k \in 1..Len(IR(t).expanded_bits) :
          /\ Len(IR(t).expanded_bits[k]) = 32
          /\ EvenParity(IR(t).expanded_bits[k])
    /\ pc = "done" =>
          \A j \in 1..Len(memory) :
              (j - 1) \notin DataAddresses => EvenParity(memory[j])

\* C3 witness: an image with an instruction word, a filler word and a data
\* word of odd parity.
C3_Witness ==
    /\ pc = "done"
    /\ \E t \in Instructions : IR(t).expanded_bits # <<>>
    /\ \E j \in 1..Len(memory) : memory[j] = Zero32
    /\ \E j \in 1..Len(memory) : ~EvenParity(memory[j])

\* C4: in the n >= 1 words of an expanded instruction the continuation bit
\* (second character) is 1 in words 1..n-1 and 0 in word n.
C4_ContinuationBit ==
    \A t \in Instructions :
        LET ws == IR(t).expanded_bits IN
        \A k \in 1..Len(ws) : ws[k][2] = IF k < Len(ws) THEN 1 ELSE 0

\* C4 witness: a three-word instruction and a single-word one.
C4_Witness ==
    /\ \E t \in Instructions : Len(IR(t).expanded_bits) = 3
    /\ \E t \in Instructions : Len(IR(t).expanded_bits) = 1

\* The names the source defines.
DefinedAliases ==
    UNION { {lines[j].aliases[a] : a \in 1..Len(lines[j].aliases)} :
            j \in 1..Len(lines) }
DefinedFunctions ==
    { lines[j].name : j \in { x \in 1..Len(lines) : lines[x].kind = "function" } }

\* C5: a run whose source references an alias or a function that no line
\* defines never reaches emission.
C5_UndefinedReferenceIsFatal ==
    Accepted =>
        \A j \in 1..Len(lines) : \A k \in 1..3 :
            lines[j].kind = "instr" =>
                /\ lines[j].ops[k].k = "alias" => lines[j].ops[k].n \in DefinedAliases
                /\ lines[j].ops[k].k = "func" => lines[j].ops[k].n \in DefinedFunctions

\* block start + intra-block index of an ALIAS line.
ComputedAliasAddr(t) == blocks[t[1]].start_addr + IR(t).lineno

\* C6: a run that declares one alias name on two content lines whose computed
\* alias addresses differ never reaches emission.
C6_AliasRedefinitionIsFatal ==
    Accepted =>
        \A t, u \in AliasLines :
            IR(t).alias = IR(u).alias => ComputedAliasAddr(t) = ComputedAliasAddr(u)

\* What the last call found bound to its name.
OldAlias == Get(last.before.alias_map, last.name)
OldFunction == Get(last.before.function_map, last.name)

\* C7: define_alias(name, addr). Bound to another non-null address: raises and
\* leaves both maps as they were. Bound to addr: succeeds and changes neither
\* map. Unbound: binds name to addr and appends name at the end of
\* aliases_at(addr), leaving every other entry alone.
C7_DefineAlias ==
    last.op = "define_alias" =>
        /\ (OldAlias # None /\ last.addr # None /\ OldAlias # last.addr) =>
              /\ last.raised
              /\ alias_map = last.before.alias_map
              /\ reverse_alias_map = last.before.reverse_alias_map
        /\ (OldAlias # None /\ last.addr = OldAlias) =>
              /\ ~last.raised
              /\ alias_map = last.before.alias_map
              /\ reverse_alias_map = last.before.reverse_alias_map
        /\ OldAlias = None =>
              /\ ~last.raised
              /\ DOMAIN alias_map = DOMAIN last.before.alias_map \cup {last.name}
              /\ \A x \in DOMAIN alias_map :
                    alias_map[x] = IF x = last.name THEN last.addr
                                   ELSE last.before.alias_map[x]
              /\ get_alias_name(reverse_alias_map, last.addr) =
                    Append(get_alias_name(last.before.reverse_alias_map, last.addr),
                           last.name)
              /\ \A a \in (DOMAIN reverse_alias_map
                           \cup DOMAIN last.before.reverse_alias_map) \ {last.addr} :
                    get_alias_name(reverse_alias_map, a) =
                       get_alias_name(last.before.reverse_alias_map, a)

\* C7 witness: a call that raised on a name that shares its address with
\* another alias.
C7_Witness ==
    /\ last.op = "define_alias"
    /\ last.raised
    /\ Len(get_alias_name(reverse_alias_map, OldAlias)) = 2

\* C8: define_function(name, addr). Filling a null (or missing) address with x
\* succeeds and get_function_addr returns x; defining again with the same x
\* succeeds and keeps x; defining with another non-null address raises and
\* leaves the stored address x unchanged.
C8_DefineFunction ==
    last.op = "define_function" =>
        /\ (OldFunction = None /\ last.addr # None) =>
              /\ ~last.raised
              /\ get_function_addr(function_map, last.name) = last.addr
        /\ (OldFunction # None /\ last.addr = OldFunction) =>
              /\ ~last.raised
              /\ get_function_addr(function_map, last.name) = OldFunction
        /\ (OldFunction # None /\ last.addr # None /\ last.addr # OldFunction) =>
              /\ last.raised
              /\ function_map = last.before.function_map
              /\ get_function_addr(function_map, last.name) = OldFunction

\* C8 witness: a function declared with a null address has just been filled.
C8_Witness ==
    /\ last.op = "define_function"
    /\ last.name \in DOMAIN last.before.function_map
    /\ last.before.function_map[last.name] = None
    /\ last.addr # None
    /\ ~last.raised
    /\ function_map[last.name] = last.addr

\* Macro n is defined by a line after source line pos and by none up to it.
MacroDefinedOnlyAfter(n, pos) ==
    /\ \E j \in (pos + 1)..Len(lines) : lines[j].kind = "macro" /\ lines[j].name = n
    /\ \A j \in 1..pos : ~(lines[j].kind = "macro" /\ lines[j].name = n)

MacroValueInSource(n) ==
    LET js == { j \in 1..Len(lines) : lines[j].kind = "macro" /\ lines[j].name = n }
    IN lines[CHOOSE j \in js : \A x \in js : j <= x].val

IsMacroOperand(op) ==
    op.k = "macro" \/ (op.k = "name" /\ op.n \notin DOMAIN register_map)

\* Byte k (1..4, in the order written) of a 32-bit data word.
ByteOf(w, k) == SubSeq(w, 8 * (k - 1) + 1, 8 * k)

\* <<t, k>>: operand k of instruction t names a macro that the source defines
\* only on a later line.
ForwardMacroOperands ==
    { u \in Instructions \X (1..3) :
        /\ IsMacroOperand(IR(u[1]).ops[u[2]])
        /\ MacroDefinedOnlyAfter(IR(u[1]).ops[u[2]].n, IR(u[1]).lineno + 1) }

\* <<t, k>>: quoted byte k of data line t names a macro that the source
\* defines only on a later line.
ForwardMacroBytes ==
    { u \in DataWords \X (1..4) :
        /\ IR(u[1]).data.quoted
        /\ u[2] <= Len(IR(u[1]).data.parts)
        /\ IR(u[1]).data.parts[u[2]].k = "word"
        /\ MacroDefinedOnlyAfter(IR(u[1]).data.parts[u[2]].n, IR(u[1]).lineno + 1) }

Interval(blk) == blk.start_addr .. (blk.start_addr + blk.size - 1)

BlocksDisjoint ==
    \A x, y \in 1..Len(blocks) :
        x # y => Interval(blocks[x]) \cap Interval(blocks[y]) = {}

\* C10: in a run that passed check_block_overlap any two distinct blocks have
\* disjoint address intervals, and check_block_overlap raises in every run
\* that brings it two blocks whose intervals intersect.
C10_BlocksDisjoint ==
    /\ [](pc \in {"section_check", "emit", "done"} => BlocksDisjoint)
    /\ [][(pc = "block_check" /\ ~BlocksDisjoint)
            => (pc' = "failed" /\ err' = "BlockOverlap")]_vars

\* C10 witness: an accepted run with a function block and a memory block that
\* both hold words, and with a function block of more than one word.
C10_Witness ==
    /\ Accepted
    /\ \E x, y \in 1..Len(blocks) :
          /\ blocks[x].type = "function" /\ blocks[x].size >= 2
          /\ blocks[y].type = "memory" /\ blocks[y].size >= 1

\* ------------------------------------------------------------------- C11
\* Every address some IR line holds after the layout.
UsedAddresses ==
    UNION { { IR(t).addresses[k] : k \in 1..Len(IR(t).addresses) } :
            t \in IRLines(blocks) }

\* The words the IR lines hold for address a.
WordsAt(a) ==
    UNION { { IR(t).expanded_bits[k] :
                k \in { j \in 1..Min(Len(IR(t).addresses),
                                      Len(IR(t).expanded_bits)) :
                          IR(t).addresses[j] = a } } :
            t \in IRLines(blocks) }

\* C11: the written image has max_used_address + 1 lines (none when no word
\* is emitted); the line at index a is the word of the IR line that owns
\* address a, and an address no IR line owns carries 32 zero bits.
C11_ImageLines ==
    pc = "done" =>
        /\ \A a \in UsedAddresses : a < Len(memory)
        /\ Len(memory) > 0 => (Len(memory) - 1) \in UsedAddresses
        /\ \A j \in 1..Len(memory) :
              IF WordsAt(j - 1) = {} THEN memory[j] = Zero32
              ELSE WordsAt(j - 1) = {memory[j]}

\* C11 witness: a written image with filler lines between the words of a
\* multi-word instruction and a data word.
C11_Witness ==
    /\ pc = "done"
    /\ \E i, j, k \in 1..Len(memory) :
          /\ i < j /\ j < k
          /\ WordsAt(i - 1) # {} /\ WordsAt(j - 1) = {} /\ WordsAt(k - 1) # {}
    /\ \E t \in Instructions : Len(IR(t).addresses) >= 2
    /\ \E t \in DataWords : IR(t).addresses = <<Len(memory) - 1>>

\* ------------------------------------------------------------------- C12
\* The value a literal quoted substring denotes.
LiteralByte(part) == IF part.k = "bin" THEN BinValue(part.digits) ELSE part.v

\* <<b, i>> of every encoded data line written as four quoted literals.
LiteralQuoted ==
    { t \in DataWords :
        /\ IR(t).data.quoted
        /\ Len(IR(t).data.parts) = 4
        /\ \A k \in 1..4 : IR(t).data.parts[k].k \in {"hex", "bin", "dec"}
        /\ IR(t).expanded_bits # <<>> }

\* C12 as claimed: the first quoted substring is byte0, the least significant
\* byte of the word: "0x11" "0x22" "0x33" "0x44" is emitted as the word whose
\* bytes, most significant first, are 0x44, 0x33, 0x22, 0x11.
C12_FirstQuotedIsByte0 ==
    LayoutConverged =>
        \A t \in LiteralQuoted : \A k \in 1..4 :
            BinValue(ByteOf(IR(t).expanded_bits[1], k)) =
                LiteralByte(IR(t).data.parts[5 - k])

\* C12 amended: the first quoted substring is byte3, the most significant
\* byte of the word: "0x11" "0x22" "0x33" "0x44" is emitted as the word whose
\* bytes, most significant first, are 0x11, 0x22, 0x33, 0x44.
C12_FirstQuotedIsByte3 ==
    LayoutConverged =>
        \A t \in LiteralQuoted : \A k \in 1..4 :
            BinValue(ByteOf(IR(t).expanded_bits[1], k)) =
                LiteralByte(IR(t).data.parts[k])

\* C12 witness: the line "0x11" "0x22" "0x33" "0x44" is in the written image.
C12_Witness ==
    /\ pc = "done"
    /\ \E t \in LiteralQuoted :
          /\ IR(t).data.parts = <<Hex(17), Hex(34), Hex(51), Hex(68)>>
          /\ memory[IR(t).addresses[1] + 1] = IR(t).expanded_bits[1]
          /\ BinValue(IR(t).expanded_bits[1]) = 287454020

\* ------------------------------------------------------------------- C13
\* C13: after every layout pass, an IR line has as many addresses as words,
\* its addresses increase by exactly 1, and an alias IR line has neither
\* words nor addresses.
C13_AddressesMatchWords ==
    \A t \in IRLines(blocks) :
        /\ Len(IR(t).addresses) = Len(IR(t).expanded_bits)
        /\ \A k \in 1..(Len(IR(t).addresses) - 1) :
              IR(t).addresses[k + 1] = IR(t).addresses[k] + 1
        /\ IR(t).type = "ALIAS" =>
              IR(t).addresses = <<>> /\ IR(t).expanded_bits = <<>>

\* C13 witness: a pass has run over an instruction of three words, a data
\* word and an alias line.
C13_Witness ==
    /\ pass_i >= 1
    /\ \E t \in Instructions : Len(IR(t).expanded_bits) = 3
    /\ \E t \in DataWords : Len(IR(t).expanded_bits) = 1
    /\ AliasLines # {}

\* ------------------------------------------------------------------- C14
\* C14: an unquoted data line of n <= 32 bits is encoded as one word, those
\* n bits followed by 32 - n zero bits, so a line of exactly 32 bits comes
\* back unchanged; a line of more than 32 bits raises and yields no word.
C14_UnquotedData ==
    (last.op = "parse_data_line" /\ ~last.arg.quoted) =>
        LET bits == last.arg.bits
            n == Len(bits)
        IN /\ n <= 32 =>
                /\ last.res.err = ""
                /\ Len(last.res.words) = 1
                /\ Len(last.res.words[1]) = 32
                /\ \A i \in 1..32 :
                      last.res.words[1][i] = IF i <= n THEN bits[i] ELSE 0
           /\ n = 32 => last.res.words = <<bits>>
           /\ n > 32 => last.res.err # "" /\ last.res.words = <<>>

\* C14 witness: a line of 31 bits that ends in 1 came back with one zero
\* appended.
C14_Witness ==
    /\ last.op = "parse_data_line"
    /\ Len(last.arg.bits) = 31
    /\ last.arg.bits[31] = 1
    /\ last.res.words = <<Append(last.arg.bits, 0)>>

\* ------------------------------------------------------------------- C15
\* The total size of the blocks of one type declared before block b.
SizeBefore(b, type) == SectionSize(SubSeq(blocks, 1, b - 1), type)

\* Every memory block starts at data_base plus the sizes of the memory
\* blocks declared before it.
MemoryBlocksCumulative ==
    \A b \in 1..Len(blocks) :
        blocks[b].type = "memory" =>
            blocks[b].start_addr = data_start + SizeBefore(b, "memory")

\* Block names are unique within their kind.
UniqueBlockNames ==
    \A x, y \in 1..Len(blocks) :
        (x # y /\ blocks[x].type = blocks[y].type) =>
            blocks[x].name # blocks[y].name

\* C15: at layout convergence (of a source whose block names are unique)
\* every function block's start_addr is the function's address in the symbol
\* table and equals code_base plus the total size of the function blocks
\* declared before it, the address of the block's first instruction word;
\* every memory block's start_addr equals data_base plus the total size of
\* the memory blocks declared before it.
C15_BlockStartIsCumulative ==
    (LayoutConverged /\ UniqueBlockNames) =>
        /\ \A b \in 1..Len(blocks) :
              blocks[b].type = "function" =>
                  /\ blocks[b].start_addr =
                        get_function_addr(function_map, blocks[b].name)
                  /\ blocks[b].start_addr =
                        code_start + SizeBefore(b, "function")
                  /\ FirstWord(b) # None => FirstWord(b) = blocks[b].start_addr
        /\ MemoryBlocksCumulative

\* ------------------------------------------------------------------- C16
\* The index in its block of the line that alias line t annotates: the
\* closest non-alias IR line before t.
AnnotatedIndex(t) ==
    LET is == { i \in 1..(t[2] - 1) : blocks[t[1]].content[i].type # "ALIAS" }
    IN CHOOSE i \in is : \A j \in is : j <= i

\* The IR line that alias line t annotates.
Annotated(t) == blocks[t[1]].content[AnnotatedIndex(t)]

\* Every alias name is declared by one alias line only.
UniqueAliasNames ==
    \A t, u \in AliasLines : t # u => IR(t).alias # IR(u).alias

\* C16: after layout (of a source that declares each alias once) the address
\* of an alias declared on a data line is the address of that data word,
\* whatever precedes the data line: in a block opened by #memory, in an
\* unnamed memory block that a data line opened after instructions, and in a
\* memory block that also holds instruction lines.
C16_DataAliasIsWordAddress ==
    (LayoutConverged /\ UniqueAliasNames) =>
        \A t \in AliasLines :
            (/\ blocks[t[1]].type = "memory"
             /\ Annotated(t).type = "MEMORY_DATA") =>
                <<get_alias_addr(alias_map, IR(t).alias)>> = Annotated(t).addresses

\* ------------------------------------------------------------------- C17
\* Every instruction before line i of block b has exactly one word.
EarlierSingleWord(b, i) ==
    \A j \in 1..(i - 1) :
        blocks[b].content[j].type = "INSTRUCTION" =>
            Len(blocks[b].content[j].expanded_bits) = 1

\* C17: at layout convergence (of a source that declares each alias once),
\* if every earlier instruction of the same function block has exactly one
\* word, the address of an alias declared on an instruction is the address
\* of that instruction's first word, however the instructions of earlier
\* function blocks expand.
C17_InstructionAliasIsFirstWord ==
    (LayoutConverged /\ UniqueAliasNames) =>
        \A t \in AliasLines :
            (/\ blocks[t[1]].type = "function"
             /\ Annotated(t).type = "INSTRUCTION"
             /\ EarlierSingleWord(t[1], AnnotatedIndex(t))) =>
                get_alias_addr(alias_map, IR(t).alias) = Annotated(t).addresses[1]

\* ------------------------------------------------------------------- C18
\* The fields of a 32-bit word read MSB-first: parity, continuation, p3, p2,
\* p1, opcode.
ParityOf(w) == w[1]
ContinuationOf(w) == w[2]
P3Field(w) == SubSeq(w, 3, 2 + param3_width)
P2Field(w) == SubSeq(w, 3 + param3_width, 2 + param3_width + param2_width)
P1Field(w) ==
    SubSeq(w, 3 + param3_width + param2_width,
           2 + param3_width + param2_width + param1_width)
OpcodeField(w) ==
    SubSeq(w, 3 + param3_width + param2_width + param1_width,
           2 + param3_width + param2_width + param1_width + opcode_width)

\* Bits [k*w, (k+1)*w) of v, as a number.
Slice(v, k, w) == (v \div (2 ^ (k * w))) % (2 ^ w)

\* The number whose k-th base-2^w digit is the value of field(words[k+1]).
RECURSIVE Reassemble(_, _, _)
Reassemble(fields, k, w) ==
    IF k > Len(fields) THEN 0
    ELSE BinValue(fields[k]) * (2 ^ ((k - 1) * w)) + Reassemble(fields, k + 1, w)

\* C18: in the k-th word of expand_instr (k = 0, 1, ...) the p1, p2 and p3
\* fields hold bits [k*w, (k+1)*w) of p1, p2 and p3, the opcode field holds
\* the opcode in word 0 and zeros in every later word, the word read
\* MSB-first is parity, continuation, p3, p2, p1, opcode, and the fields of
\* all the words put together give p1, p2 and p3 back.
C18_FieldContents ==
    last.op = "expand_instr" =>
        LET opcode_bits == last.arg[1]
            p1 == last.arg[2]
            p2 == last.arg[3]
            p3 == last.arg[4]
            words == last.res
            n == Len(words)
        IN /\ \A k \in 0..(n - 1) :
                LET w == words[k + 1] IN
                /\ Len(w) = 32
                /\ ParityOf(w) = SumSeq(SubSeq(w, 2, 32)) % 2
                /\ ContinuationOf(w) = IF k + 1 < n THEN 1 ELSE 0
                /\ BinValue(P3Field(w)) = Slice(p3, k, param3_width)
                /\ BinValue(P2Field(w)) = Slice(p2, k, param2_width)
                /\ BinValue(P1Field(w)) = Slice(p1, k, param1_width)
                /\ OpcodeField(w) = IF k = 0 THEN opcode_bits
                                    ELSE [i \in 1..opcode_width |-> 0]
           /\ Reassemble([k \in 1..n |-> P1Field(words[k])], 1, param1_width) = p1
           /\ Reassemble([k \in 1..n |-> P2Field(words[k])], 1, param2_width) = p2
           /\ Reassemble([k \in 1..n |-> P3Field(words[k])], 1, param3_width) = p3

\* C18 witness: an instruction of three words in which each of the three
\* operands runs into the third word.
C18_Witness ==
    /\ last.op = "expand_instr"
    /\ Len(last.res) = 3
    /\ last.arg[2] >= 2 ^ (2 * param1_width)
    /\ last.arg[3] >= 2 ^ (2 * param2_width)
    /\ last.arg[4] >= 2 ^ (2 * param3_width)
    /\ BinValue(P1Field(last.res[3])) = 1

\* ------------------------------------------------------------------- C19
\* The number of bits of v: 0 for 0.
BitLen(v) == CHOOSE n \in 0..32 : v < 2 ^ n /\ (n = 0 \/ v >= 2 ^ (n - 1))
CeilDiv(a, b) == (a + b - 1) \div b

\* C19: expand_instr emits max(1, ceil(bitlen(p1)/w_p1), ceil(bitlen(p2)/w_p2),
\* ceil(bitlen(p3)/w_p3)) words: two for p1 = 0x4000 alone, one for all-zero
\* operands.
C19_WordCount ==
    last.op = "expand_instr" =>
        Len(last.res) =
            Max(Max(1, CeilDiv(BitLen(last.arg[2]), param1_width)),
                Max(CeilDiv(BitLen(last.arg[3]), param2_width),
                    CeilDiv(BitLen(last.arg[4]), param3_width)))

\* C19 witness: p1 = 0x4000 with p2 = p3 = 0 gave exactly two words.
C19_Witness ==
    /\ last.op = "expand_instr"
    /\ last.arg[2] = 16384 /\ last.arg[3] = 0 /\ last.arg[4] = 0
    /\ Len(last.res) = 2

\* ------------------------------------------------------------------- C20
\* Bit i of x in two's complement.
BitAt(x, i) == (x \div (2 ^ i)) % 2

OrTable == [p \in {0, 1} \X {0, 1} |-> IF p[1] = 1 \/ p[2] = 1 THEN 1 ELSE 0]
AndTable == [p \in {0, 1} \X {0, 1} |-> IF p[1] = 1 /\ p[2] = 1 THEN 1 ELSE 0]
XorTable == [p \in {0, 1} \X {0, 1} |-> IF p[1] # p[2] THEN 1 ELSE 0]

RECURSIVE WeightedBits(_, _, _, _)
WeightedBits(a, b, table, i) ==
    IF i < 0 THEN 0
    ELSE table[<<BitAt(a, i), BitAt(b, i)>>] * (2 ^ i)
         + WeightedBits(a, b, table, i - 1)

\* The number whose bits are table applied to the bits of a and b, for a and
\* b of 12 bits with sign.
Bitwise(a, b, table) ==
    WeightedBits(a, b, table, 10) - table[<<BitAt(a, 11), BitAt(b, 11)>>] * (2 ^ 11)

\* One step of the fold the claim describes.
FoldStep(acc, operator, value) ==
    CASE operator = "|" -> Bitwise(acc, value, OrTable)
      [] operator = "&" -> Bitwise(acc, value, AndTable)
      [] operator = "^" -> Bitwise(acc, value, XorTable)
      [] operator = "~" -> 255 - (acc % 256)
      [] operator = "+" -> acc + value
      [] operator = "-" -> acc - value

\* The value of a name that resolves to at most 8 bits.
FlagNumber(flag) ==
    IF flag \in DOMAIN macro_map THEN macro_map[flag]
    ELSE BinValue(flag_map[flag])

FlagResolves(flag) ==
    \/ flag \in DOMAIN macro_map /\ macro_map[flag] < 256
    \/ flag \notin DOMAIN macro_map /\ flag \in DOMAIN flag_map

\* The strict left-to-right fold over the names from index i on.
RECURSIVE LeftFold(_, _, _, _)
LeftFold(flags, operators, i, acc) ==
    IF i > Len(flags) THEN acc
    ELSE LeftFold(flags, operators, i + 1,
                  FoldStep(acc, operators[i - 1], FlagNumber(flags[i])))

\* The number a formatted byte shows.
ShownValue(bitstr) ==
    IF bitstr[1] = MinusChar THEN 0 - BinValue(Tail(bitstr)) ELSE BinValue(bitstr)

\* C20: a flag combination is a strict left-to-right fold with no
\* precedence: the accumulator starts at the first name's value, each of
\* | & ^ + - combines it with the next name's value, and ~ replaces it by
\* its bitwise NOT masked to 8 bits, discarding the value of the name to its
\* right, which must still resolve; REG_SET1|REG_SET2 yields 0x30.
C20_FlagFold ==
    (last.op = "parse_8_bit_data" /\ last.arg.k = "expr") =>
        LET flags == last.arg.flags
            operators == last.arg.operators
        IN IF \E i \in 1..Len(flags) : ~FlagResolves(flags[i])
           THEN last.res.err # ""
           ELSE LET acc == LeftFold(flags, operators, 2, FlagNumber(flags[1])) IN
                /\ last.res.err = "" => ShownValue(last.res.bitstr) = acc
                /\ last.res.err # "" => acc >= 256
                /\ (flags = <<"REG_SET1", "REG_SET2">> /\ operators = <<"|">>)
                      => last.res.bitstr = <<0, 0, 1, 1, 0, 0, 0, 0>>

\* C20 witness: REG_SET2~REG_SET1&REG_SET1 came out as 0x20: the NOT of 0x10
\* masked to 8 bits is 0xEF whatever the REG_SET1 to the right of ~ is, and
\* 0xEF & 0x20 is 0x20.
C20_Witness ==
    /\ last.op = "parse_8_bit_data"
    /\ last.arg.flags = <<"REG_SET2", "REG_SET1", "REG_SET1">>
    /\ last.arg.operators = <<"~", "&">>
    /\ last.res.err = ""
    /\ last.res.bitstr = <<0, 0, 1, 0, 0, 0, 0, 0>>

\* ------------------------------------------------------------------- C21
\* The positions of main, in the order the code goes through them.
StageOf(p) ==
    CASE p = "parse" -> 0
      [] p = "layout" -> 1
      [] p = "unresolved_check" -> 2
      [] p = "block_check" -> 3
      [] p = "section_check" -> 4
      [] p = "emit" -> 5
      [] p = "done" -> 6
      [] p = "failed" -> 7

\* No alias and no function is left without an address.
NoUnresolvedSymbol ==
    /\ \A an \in DOMAIN alias_map : alias_map[an] # None
    /\ \A fn \in DOMAIN function_map : function_map[fn] # None

\* C21: the run goes from the layout loop to the unresolved-symbol check only
\* when a pass after the first left every (start_addr, size) as the pass before
\* it, from there to the block-overlap check only with no unresolved symbol,
\* to the section-overlap check only when the block check passed, to the
\* emitter only when the section check passed, and the image is written by
\* the emitter only; a run that raised stays failed and writes no image.
C21_PipelineOrder ==
    /\ [](pc = "failed" => err # "" /\ memory = <<>>)
    /\ [][ /\ pc # "failed" =>
                (pc' = "failed" \/ StageOf(pc') \in {StageOf(pc), StageOf(pc) + 1})
           /\ pc = "failed" => pc' = "failed"
           /\ (pc = "layout" /\ pc' = "unresolved_check") =>
                 /\ pass_i >= 1
                 /\ Snapshot(blocks') = prev_blocks
           /\ (pc' = "block_check" /\ pc # "block_check") =>
                 pc = "unresolved_check" /\ NoUnresolvedSymbol
           /\ (pc' = "section_check" /\ pc # "section_check") =>
                 pc = "block_check" /\ ~check_block_overlap(blocks)
           /\ (pc' = "emit" /\ pc # "emit") =>
                 /\ pc = "section_check"
                 /\ ~check_section_overlap(code_start,
                                           SectionSize(blocks, "function"),
                                           data_start,
                                           SectionSize(blocks, "memory"))
           /\ memory' # memory => pc = "emit" /\ pc' = "done"
         ]_vars

\* C21 witness: the emitter has written an image after a layout that took
\* three passes.
C21_Witness ==
    /\ pc = "done"
    /\ pass_i = 2
    /\ Len(memory) >= 2

\* ------------------------------------------------------------------- C22
\* C22: the pass loop never runs a pass with an index above 2 and never ends
\* in the non-convergence error: the pass with index 2, when the loop gets
\* that far, raises nothing, computes the (start_addr, size) list the pass
\* before it computed, and ends the loop.
C22_ConvergesByThirdPass ==
    /\ [](pass_i <= 2 /\ err # "NotConverged")
    /\ []((pc = "layout" /\ pass_i = 2) =>
             LET r == resolve_symbols(blocks, SymTbl, code_start, data_start) IN
             r.err = "" /\ Snapshot(r.blocks) = Snapshot(blocks))
    /\ [][(pc = "layout" /\ pass_i = 2) => pc' = "unresolved_check"]_vars

\* C22 witness: the loop ended in its third pass; the second pass had changed
\* the size of a block because an instruction grew to two words.
C22_Witness ==
    /\ pc = "unresolved_check"
    /\ pass_i = 2
    /\ \E t \in Instructions :
          /\ Len(IR(t).expanded_bits) = 2
          /\ \E k \in 1..3 : IR(t).ops[k].k \in {"func", "alias"}

\* ------------------------------------------------------------------- C23
\* The first call of resolve_symbols has returned.
FirstPassReturned == pass_i >= 1

C24_WordsInsideOwnBlock ==
    Accepted =>
        /\ \A t \in Emitted(blocks) :
              AddrOf(blocks, t) \in Interval(blocks[t[1]])
        /\ \A b \in 1..Len(blocks) :
              FirstWord(b) # None => blocks[b].start_addr = FirstWord(b)

\* C24 witness: an image was written from two function blocks that both emit
\* words, the second one after a first one of several words.
C24_Witness ==
    /\ pc = "done"
    /\ \E x, y \in 1..Len(blocks) :
          /\ x < y
          /\ blocks[x].type = "function" /\ blocks[x].size >= 2
          /\ blocks[y].type = "function" /\ blocks[y].size >= 1

\* ------------------------------------------------------------------- C25
\* The addresses of the code section and of the data section.
CodeSection == code_start .. (code_start + SectionSize(blocks, "function") - 1)
DataSection == data_start .. (data_start + SectionSize(blocks, "memory") - 1)

\* C25: a run ends in the section-overlap error only if some address belongs
\* to the code section and to the data section; with a section of size 0 the
\* check does not raise.
C25_SectionRejectedOnlyIfShared ==
    (pc = "failed" /\ err = "SectionOverlap") =>
        CodeSection \cap DataSection # {}

\* ------------------------------------------------------------------- C26
\* C26: in a run that reached emission no two emitted words, of one IR line
\* or of two, of one block or of two, have the same address.
C26_NoAddressWrittenTwice ==
    Accepted =>
        \A t, u \in Emitted(blocks) :
            t # u => AddrOf(blocks, t) # AddrOf(blocks, u)

\* C26 witness: an image was written from at least four words: the words of
\* an instruction of several words, of another instruction and of a data
\* line.
C26_Witness ==
    /\ pc = "done"
    /\ Cardinality(Emitted(blocks)) >= 4
    /\ \E t, u \in Instructions :
          t # u /\ Len(IR(t).addresses) >= 2 /\ Len(IR(u).addresses) >= 1
    /\ \E t \in DataWords : Len(IR(t).addresses) = 1

\* ------------------------------------------------------------------- C27
\* A string of exactly n characters, each '0' or '1'.
IsBitString(w, n) == Len(w) = n /\ \A i \in 1..Len(w) : w[i] \in {0, 1}

\* C27: every word parse_data_line returns without raising is 32 characters
\* '0' or '1', and every quoted byte parse_8_bit_data accepts, a flag
\* combination with + or - included, is 8 binary digits of a value 0..255.
C27_DataWordIs32Bits ==
    /\ (last.op = "parse_data_line" /\ last.res.err = "") =>
          \A k \in 1..Len(last.res.words) : IsBitString(last.res.words[k], 32)
    /\ (last.op = "parse_8_bit_data" /\ last.res.err = "") =>
          /\ IsBitString(last.res.bitstr, 8)
          /\ BinValue(last.res.bitstr) \in 0..255

\* ------------------------------------------------------------------- C28
\* <<b, i>> of every IR line made from a source line whose first token is an
\* opcode, in whatever block it was put.
OpcodeLines ==
    { t \in IRLines(blocks) : IR(t).type = "INSTRUCTION" }

\* C28: in the written image, every source line that starts with an opcode
\* has at least one word, at the address the layout gave it.
C28_EveryOpcodeLineEmitsAWord ==
    pc = "done" =>
        \A t \in OpcodeLines :
            \E k \in 1..Len(IR(t).expanded_bits) :
                /\ <<t[1], t[2], k>> \in Emitted(blocks)
                /\ memory[IR(t).addresses[k] + 1] = IR(t).expanded_bits[k]

\* ------------------------------------------------------------------- C29
\* C29: a function that get_function_addr reports at an integer address is
\* reported at that address after every further call on the symbol table,
\* whether the call succeeds or raises and whether its address is an integer
\* or null.
C29_FunctionBindingIsMonotonic ==
    [][\A fname \in DOMAIN function_map :
          get_function_addr(function_map, fname) # None =>
              get_function_addr(function_map', fname) =
                  get_function_addr(function_map, fname)]_vars

====
